---- MODULE Spec2Model ----
(***************************************************************************)
(* Model of fishbuilder.py: a genetic search over gcc flag choices.        *)
(*                                                                         *)
(* A genome is a sequence of option indices, one per line of               *)
(* gcc_options.txt.  launch_ga builds a population, evaluates it with a    *)
(* pool of worker processes (eval_one_max: build, bench_engine, remove),   *)
(* runs deap's eaSimple loop (selTournament, cxTwoPoint, mutFlipBit,       *)
(* HallOfFame) and ends with profile_build of the hall-of-fame genome.     *)
(*                                                                         *)
(* options[i] is modelled by its length len(options[i]) (the sentinel None *)
(* at index 0 plus the tokens of line i); an option string options[i][v]   *)
(* is modelled by the pair <<i, v>>.  A file on disk is modelled by the      *)
(* number of the task whose g++ wrote it (0: no file).  A worker process   *)
(* is modelled by the task it runs: at most PoolSize tasks run at a time.  *)
(***************************************************************************)
EXTENDS Integers, Sequences, FiniteSets

\* ---- bounds of the model ------------------------------------------------
PopSize == 2          \* launch_ga's population argument
Generations == 1      \* launch_ga's generations argument
MaxGroups == 2        \* lines of gcc_options.txt
MaxTokens == 2        \* tokens on one line of gcc_options.txt
NumPaths == 2         \* names tempfile.mktemp can return
MaxSample == 1        \* largest Nodes/second figure a bench run prints

\* ---- constants of the program -------------------------------------------
PoolSize == 3         \* multiprocessing.Pool(3)
Samples == 3          \* bench_engine(executable, 3)
TournSize == 3        \* selTournament, tournsize=3

Tasks == 1..PopSize
Paths == 1..NumPaths

VARIABLES
    options,    \* options[i] = len(options[i]) of the source
    pc,         \* position of the main process in launch_ga
    gen,        \* eaSimple's generation counter
    pop,        \* the population / offspring list: [genome, fit, valid]
    hof,        \* tools.HallOfFame(1): a sequence of at most one [genome, fit]
    jobs,       \* the list handed to pool.map: indices of pop with invalid fitness
    nextJob,    \* next task of the pool's task queue
    res,        \* the MapResult's value list: [st, val], st = "none", "ok", "raised"
    tpc,        \* position of each task's worker in eval_one_max
    tpath,      \* the executable path of the task's build
    tfit,       \* the local variable fitness of the task's eval_one_max
    tfail,      \* whether the g++ call of the task failed (status or no file)
    disk,       \* temporary directory: path -> task that wrote the file, 0 if none
    bestEver,   \* largest fitness any evaluation has returned to the main process
    artifact,   \* the file at executable_dir/stockfish
    pbArgs,     \* build_options profile_build was called with
    pbCalls,    \* number of calls of profile_build
    pbFailed,   \* phases of profile_build whose process failed
    pbResult,   \* how profile_build ended: "none", "path", "raised"
    bestFit     \* blocks appended to best_fit.txt

vars == <<options, pc, gen, pop, hof, jobs, nextJob, res, tpc, tpath,
          tfit, tfail, disk, bestEver, artifact, pbArgs, pbCalls, pbFailed,
          pbResult, bestFit>>

mainVars == <<options, pc, gen, pop, hof, bestEver>>
poolVars == <<jobs, nextJob, res, tpc, tpath, tfit, tfail, disk>>
finalVars == <<artifact, pbArgs, pbCalls, pbFailed, pbResult, bestFit>>

\* ---- helpers --------------------------------------------------------------
Max(a, b) == IF a >= b THEN a ELSE b

RECURSIVE SeqMax(_)
SeqMax(s) == IF Len(s) = 1 THEN s[1] ELSE Max(s[1], SeqMax(Tail(s)))

\* all sequences over S of length n
SeqsOf(S, n) == [1..n -> S]

\* ---- the catalog (lines 34-39) --------------------------------------------
\* each line gives [None] + line.split(' '): at least two entries
Catalogs == UNION {SeqsOf(2..(MaxTokens + 1), k) : k \in 1..MaxGroups}

\* ---- individual_to_parameters (lines 81-86) -------------------------------
RECURSIVE Decode(_, _)
Decode(individual, idx) ==
    IF idx > Len(individual) THEN <<>>
    ELSE IF individual[idx] # 0
         THEN <<(<<idx, individual[idx]>>)>> \o Decode(individual, idx + 1)
         ELSE Decode(individual, idx + 1)

individual_to_parameters(individual) == Decode(individual, 1)

\* ---- the attribute generators and the population (lines 108-114, 123) -----
\* random.randint(0, len(val) - 1): both ends included
attr(val) == 0..(val - 1)

\* toolbox.individual: initCycle calls every attribute generator once
Individuals == {g \in SeqsOf(0..(MaxTokens + 1), Len(options)) :
                    \A i \in 1..Len(options) : g[i] \in attr(options[i])}

Unevaluated(g) == [genome |-> g, fit |-> 0, valid |-> FALSE]

\* ---- multiprocessing.Pool(3).map (lines 120-121) --------------------------
NoResult == [st |-> "none", val |-> 0]
OkResult(v) == [st |-> "ok", val |-> v]
RaisedResult == [st |-> "raised", val |-> 0]

\* invalid_ind = [ind for ind in population if not ind.fitness.valid]
RECURSIVE InvalidFrom(_, _)
InvalidFrom(population, i) ==
    IF i > Len(population) THEN <<>>
    ELSE IF population[i].valid THEN InvalidFrom(population, i + 1)
         ELSE <<i>> \o InvalidFrom(population, i + 1)

invalid_ind(population) == InvalidFrom(population, 1)

\* toolbox.map(toolbox.evaluate, invalid_ind): the tasks are queued in order
\* (for lists this short pool.map puts one genome in each task)
StartMap(population) ==
    /\ jobs' = invalid_ind(population)
    /\ nextJob' = 1
    /\ res' = [i \in 1..Len(invalid_ind(population)) |-> NoResult]
    /\ tpc' = [j \in Tasks |-> IF j <= Len(invalid_ind(population))
                                THEN "queued" ELSE "none"]
    /\ tpath' = [j \in Tasks |-> 0]
    /\ tfit' = [j \in Tasks |-> 0]
    /\ tfail' = [j \in Tasks |-> FALSE]

\* the MapResult stores a task's value at the task's index
Store(r, i, v) == [r EXCEPT ![i] = v]

\* ---- launch_ga: the initial population (line 123) -------------------------
InitPopulation ==
    /\ pc = "Initialized"
    /\ \E g \in SeqsOf(Individuals, PopSize) :
           /\ pop' = [n \in 1..PopSize |-> Unevaluated(g[n])]
           /\ StartMap([n \in 1..PopSize |-> Unevaluated(g[n])])
    /\ pc' = "Evaluating"
    /\ UNCHANGED <<options, gen, hof, bestEver, disk>>
    /\ UNCHANGED finalVars

\* ---- eval_one_max in a worker (lines 90-97) -------------------------------
Running == {j \in Tasks : tpc[j] \in {"build", "check", "bench", "remove"}}

\* the task ends: its value (or its exception) goes to the MapResult
Finish(j, v) ==
    /\ res' = Store(res, j, v)
    /\ tpc' = [tpc EXCEPT ![j] = "done"]
    /\ tpath' = [tpath EXCEPT ![j] = 0]
    /\ tfit' = [tfit EXCEPT ![j] = 0]
    /\ tfail' = [tfail EXCEPT ![j] = FALSE]

\* an idle worker takes the next task of the queue; build calls
\* tempfile.mktemp (line 44), which returns a name that no file has at that
\* moment, or raises FileExistsError when it finds none
Mktemp(j) ==
    /\ pc = "Evaluating"
    /\ tpc[j] = "queued"
    /\ j = nextJob
    /\ Cardinality(Running) < PoolSize
    /\ nextJob' = nextJob + 1
    /\ IF \A p \in Paths : disk[p] # 0
       THEN Finish(j, RaisedResult)
       ELSE /\ \E p \in Paths :
                  /\ disk[p] = 0
                  /\ tpath' = [tpath EXCEPT ![j] = p]
            /\ tpc' = [tpc EXCEPT ![j] = "build"]
            /\ UNCHANGED <<res, tfit, tfail>>
    /\ UNCHANGED <<jobs, disk>>
    /\ UNCHANGED mainVars
    /\ UNCHANGED finalVars

\* build: subprocess.call(['g++', ...]) (line 46); the exit status is dropped.
\* g++ ends with a status and has or has not written the output file; a
\* status of 0 comes with the file.
Compile(j) ==
    /\ pc = "Evaluating"
    /\ tpc[j] = "build"
    /\ \E status \in {0, 1}, produced \in BOOLEAN :
           /\ status = 0 => produced
           /\ disk' = IF produced THEN [disk EXCEPT ![tpath[j]] = j] ELSE disk
           /\ tfail' = [tfail EXCEPT ![j] = (status # 0 \/ ~produced)]
    /\ tpc' = [tpc EXCEPT ![j] = "check"]
    /\ UNCHANGED <<jobs, nextJob, res, tpath, tfit>>
    /\ UNCHANGED mainVars
    /\ UNCHANGED finalVars

\* if os.path.isfile(executable): ... else: fitness = 0 (lines 92, 95-97)
IsFile(j) ==
    /\ pc = "Evaluating"
    /\ tpc[j] = "check"
    /\ IF disk[tpath[j]] # 0
       THEN /\ tpc' = [tpc EXCEPT ![j] = "bench"]
            /\ UNCHANGED <<res, tpath, tfit, tfail>>
       ELSE Finish(j, OkResult(0))
    /\ UNCHANGED <<jobs, nextJob, disk>>
    /\ UNCHANGED mainVars
    /\ UNCHANGED finalVars

\* bench_engine (lines 63-77): one entry per run, 0 when the run printed no
\* 'Nodes/second' line, else the number on that line
bench_log(outs) == SelectSeq(outs, LAMBDA x : x # 0)

\* fitness = max(bench_engine(executable, 3)) (line 93): max of an empty
\* list raises ValueError; running a missing file raises FileNotFoundError
Bench(j) ==
    /\ pc = "Evaluating"
    /\ tpc[j] = "bench"
    /\ IF disk[tpath[j]] = 0
       THEN Finish(j, RaisedResult)
       ELSE \E outs \in SeqsOf(0..MaxSample, Samples) :
                IF bench_log(outs) = <<>>
                THEN Finish(j, RaisedResult)
                ELSE /\ tfit' = [tfit EXCEPT ![j] = SeqMax(bench_log(outs))]
                     /\ tpc' = [tpc EXCEPT ![j] = "remove"]
                     /\ UNCHANGED <<res, tpath, tfail>>
    /\ UNCHANGED <<jobs, nextJob, disk>>
    /\ UNCHANGED mainVars
    /\ UNCHANGED finalVars

\* os.remove(executable); return [fitness] (lines 94, 97)
Remove(j) ==
    /\ pc = "Evaluating"
    /\ tpc[j] = "remove"
    /\ IF disk[tpath[j]] = 0
       THEN /\ Finish(j, RaisedResult)
            /\ UNCHANGED disk
       ELSE /\ Finish(j, OkResult(tfit[j]))
            /\ disk' = [disk EXCEPT ![tpath[j]] = 0]
    /\ UNCHANGED <<jobs, nextJob>>
    /\ UNCHANGED mainVars
    /\ UNCHANGED finalVars

\* ---- tools.HallOfFame(1).update (lines 124, 131-132) ----------------------
HofEntry(ind) == [genome |-> ind.genome, fit |-> ind.fit]

\* deap: an individual enters the hall of fame when its fitness is greater
\* than that of the last entry and no entry is similar to it (similar is
\* operator.eq on the genomes); an empty hall of fame takes population[0]
RECURSIVE HofUpdate(_, _, _)
HofUpdate(h, population, i) ==
    IF i > Len(population) THEN h
    ELSE IF Len(h) = 0
         THEN HofUpdate(<<HofEntry(population[1])>>, population, i + 1)
         ELSE IF /\ population[i].fit > h[1].fit
                 /\ population[i].genome # h[1].genome
              THEN HofUpdate(<<HofEntry(population[i])>>, population, i + 1)
              ELSE HofUpdate(h, population, i + 1)

\* ---- eaSimple: the results of the map (lines 131-132) ---------------------
\* for ind, fit in zip(invalid_ind, fitnesses): ind.fitness.values = fit
Assign(population, js, fitnesses) ==
    [n \in 1..Len(population) |->
        IF \E i \in 1..Len(js) : js[i] = n
        THEN LET i == CHOOSE i \in 1..Len(js) : js[i] = n
             IN  [population[n] EXCEPT !.fit = fitnesses[i].val, !.valid = TRUE]
        ELSE population[n]]

\* pool.map returns the list once every task has a value; eaSimple assigns
\* the fitnesses, updates the hall of fame and goes on to the next
\* generation, or returns after the last one
MapReturn ==
    /\ pc = "Evaluating"
    /\ \A i \in 1..Len(jobs) : res[i].st = "ok"
    /\ pop' = Assign(pop, jobs, res)
    /\ hof' = HofUpdate(hof, Assign(pop, jobs, res), 1)
    /\ bestEver' = IF jobs = <<>> THEN bestEver
                   ELSE Max(bestEver, SeqMax([i \in 1..Len(jobs) |-> res[i].val]))
    /\ pc' = IF gen < Generations THEN "Selecting" ELSE "Finalizing"
    /\ UNCHANGED <<options, gen>>
    /\ UNCHANGED poolVars
    /\ UNCHANGED finalVars

\* pool.map re-raises in the main process the exception of a task; nothing
\* in eaSimple or launch_ga catches it, and the pool's daemon workers end
\* with the main process
MapRaise ==
    /\ pc = "Evaluating"
    /\ \E i \in 1..Len(jobs) : res[i].st = "raised"
    /\ pc' = "Aborted"
    /\ UNCHANGED <<options, gen, pop, hof, bestEver>>
    /\ UNCHANGED poolVars
    /\ UNCHANGED finalVars

\* ---- selTournament, tournsize=3 (line 118) --------------------------------
\* max(aspirants, key=fitness): the first of the fittest aspirants
Tournament(population, aspirants) ==
    LET best == SeqMax([j \in 1..TournSize |-> population[aspirants[j]].fit])
        first == CHOOSE j \in 1..TournSize :
                     /\ population[aspirants[j]].fit = best
                     /\ \A m \in 1..(j - 1) : population[aspirants[m]].fit # best
    IN  population[aspirants[first]]

\* offspring = toolbox.select(population, len(population)), one tournament
\* of random aspirants (drawn with replacement) per place
Select ==
    /\ pc = "Selecting"
    /\ \E aspirants \in SeqsOf(SeqsOf(1..PopSize, TournSize), PopSize) :
           pop' = [n \in 1..PopSize |-> Tournament(pop, aspirants[n])]
    /\ gen' = gen + 1
    /\ pc' = "Varying"
    /\ UNCHANGED <<options, hof, bestEver>>
    /\ UNCHANGED poolVars
    /\ UNCHANGED finalVars

\* ---- varAnd: cxTwoPoint with cxpb=0.5 (lines 116, 131) --------------------
\* cxpoint1 = randint(1, size); cxpoint2 = randint(1, size - 1); the slice
\* [cxpoint1:cxpoint2] after ordering the two points, as positions from 1
CutLo(c) == IF c[2] >= c[1] THEN c[1] + 1 ELSE c[2] + 1
CutHi(c) == IF c[2] >= c[1] THEN c[2] + 1 ELSE c[1]

cxTwoPoint(ind1, ind2, c) ==
    [i \in 1..Len(ind1) |-> IF CutLo(c) <= i /\ i <= CutHi(c) THEN ind2[i] ELSE ind1[i]]

NoCx == <<0, 0>>
Cuts == (1..Len(options)) \X (1..(Len(options) - 1))
Pairs == 1..(PopSize \div 2)
Partner(n) == IF n % 2 = 1 THEN n + 1 ELSE n - 1
PairOf(n) == (n + 1) \div 2

\* the offspring of a mated pair lose their fitness (del fitness.values)
Mated(population, choice) ==
    [n \in 1..Len(population) |->
        IF PairOf(n) \in Pairs /\ choice[PairOf(n)] # NoCx
        THEN Unevaluated(cxTwoPoint(population[n].genome,
                                    population[Partner(n)].genome,
                                    choice[PairOf(n)]))
        ELSE population[n]]

\* with fewer than two genes randint(1, size - 1) raises ValueError
Mate ==
    /\ pc = "Varying"
    /\ \/ /\ Len(options) >= 2
          /\ \E choice \in [Pairs -> {NoCx} \cup Cuts] : pop' = Mated(pop, choice)
          /\ pc' = "Mutating"
       \/ /\ Len(options) < 2
          /\ \E mated \in BOOLEAN :
                 pc' = IF mated /\ Pairs # {} THEN "Aborted" ELSE "Mutating"
          /\ UNCHANGED pop
    /\ UNCHANGED <<options, gen, hof, bestEver>>
    /\ UNCHANGED poolVars
    /\ UNCHANGED finalVars

\* ---- varAnd: mutFlipBit with mutpb=0.2, indpb=0.05 (lines 117, 131) -------
\* individual[i] = type(individual[i])(not individual[i])
FlipBitNext(v) == v + 1
FlipBit(v) == IF v = 0 THEN 1 ELSE 0

mutFlipBit(individual, flipped) ==
    [i \in 1..Len(individual) |->
        IF i \in flipped THEN FlipBit(individual[i]) ELSE individual[i]]

NoMut == [on |-> FALSE, flipped |-> {}]
Muts == {NoMut} \cup {[on |-> TRUE, flipped |-> f] : f \in SUBSET (1..Len(options))}

\* a mutated individual loses its fitness even when no gene was flipped
Mutated(population, choice) ==
    [n \in 1..Len(population) |->
        IF choice[n].on
        THEN Unevaluated(mutFlipBit(population[n].genome, choice[n].flipped))
        ELSE population[n]]

\* after varAnd eaSimple maps the evaluation over the invalid offspring
Mutate ==
    /\ pc = "Mutating"
    /\ \E choice \in SeqsOf(Muts, PopSize) :
           /\ pop' = Mutated(pop, choice)
           /\ StartMap(Mutated(pop, choice))
    /\ pc' = "Evaluating"
    /\ UNCHANGED <<options, gen, hof, bestEver, disk>>
    /\ UNCHANGED finalVars

\* ---- launch_ga: the end of the run (lines 134-139) ------------------------
\* best_fit.txt gets the block, then profile_build starts with the
\* instrumented build (line 53): g++ writes the file or fails
Finalize ==
    /\ pc = "Finalizing"
    /\ bestFit' = Append(bestFit, individual_to_parameters(hof[1].genome))
    /\ pbArgs' = individual_to_parameters(hof[1].genome)
    /\ pbCalls' = pbCalls + 1
    /\ \E built \in BOOLEAN :
           /\ artifact' = IF built THEN "instrumented" ELSE artifact
           /\ pbFailed' = IF built THEN pbFailed ELSE pbFailed \cup {"a"}
    /\ pc' = "ProfileRun"
    /\ UNCHANGED pbResult
    /\ UNCHANGED <<options, gen, pop, hof, bestEver>>
    /\ UNCHANGED poolVars

\* subprocess.call([filename, 'bench']) (line 55): the status is dropped;
\* running a file that does not exist raises FileNotFoundError
ProfileRun ==
    /\ pc = "ProfileRun"
    /\ IF artifact = "none"
       THEN /\ pbResult' = "raised"
            /\ pbFailed' = pbFailed \cup {"b"}
            /\ pc' = "Aborted"
       ELSE /\ \E status \in {0, 1} :
                  pbFailed' = IF status = 0 THEN pbFailed ELSE pbFailed \cup {"b"}
            /\ pc' = "ProfileUse"
            /\ UNCHANGED pbResult
    /\ UNCHANGED <<artifact, pbArgs, pbCalls, bestFit>>
    /\ UNCHANGED <<options, gen, pop, hof, bestEver>>
    /\ UNCHANGED poolVars

\* build(build_options + ['-fprofile-use', '-lgcov'], filename); return
\* filename (lines 57-59): a failing g++ leaves the file of the first build
\* in place or removes it
ProfileUse ==
    /\ pc = "ProfileUse"
    /\ \E built \in BOOLEAN, kept \in BOOLEAN :
           /\ built => kept
           /\ artifact' = IF built THEN "final"
                          ELSE IF kept THEN artifact ELSE "none"
           /\ pbFailed' = IF built THEN pbFailed ELSE pbFailed \cup {"c"}
    /\ pbResult' = "path"
    /\ pc' = "Done"
    /\ UNCHANGED <<pbArgs, pbCalls, bestFit>>
    /\ UNCHANGED <<options, gen, pop, hof, bestEver>>
    /\ UNCHANGED poolVars

\* ---- the run ----------------------------------------------------------------
Init ==
    /\ options \in Catalogs
    /\ pc = "Initialized"
    /\ gen = 0
    /\ pop = <<>>
    /\ hof = <<>>
    /\ jobs = <<>>
    /\ nextJob = 1
    /\ res = <<>>
    /\ tpc = [j \in Tasks |-> "none"]
    /\ tpath = [j \in Tasks |-> 0]
    /\ tfit = [j \in Tasks |-> 0]
    /\ tfail = [j \in Tasks |-> FALSE]
    /\ disk = [p \in Paths |-> 0]
    /\ bestEver = 0
    /\ artifact = "none"
    /\ pbArgs = <<>>
    /\ pbCalls = 0
    /\ pbFailed = {}
    /\ pbResult = "none"
    /\ bestFit = <<>>

eval_one_max(j) == Mktemp(j) \/ Compile(j) \/ IsFile(j) \/ Bench(j) \/ Remove(j)

Next ==
    \/ InitPopulation
    \/ \E j \in Tasks : eval_one_max(j)
    \/ MapReturn
    \/ MapRaise
    \/ Select
    \/ Mate
    \/ Mutate
    \/ Finalize
    \/ ProfileRun
    \/ ProfileUse

Spec == Init /\ [][Next]_vars

\* ==== the claims =============================================================

\* C1: every genome of the population, after initialization, after
\* cxTwoPoint and after mutFlipBit, has one gene per group of the catalog,
\* and every gene is an index into its group: 0 <= gene[i] < len(options[i]).
C1_GenomesValid ==
    \A n \in 1..Len(pop) :
        /\ Len(pop[n].genome) = Len(options)
        /\ \A i \in 1..Len(options) :
               0 <= pop[n].genome[i] /\ pop[n].genome[i] < options[i]

\* a generation whose offspring were rewritten by crossover or mutation
C1_Witness ==
    /\ pc = "Evaluating"
    /\ gen = 1
    /\ Len(options) >= 2
    /\ \A n \in 1..Len(pop) : ~pop[n].valid
    /\ pop[1].genome # pop[2].genome

\* C2: when the g++ call of an evaluation has failed (non-zero status or no
\* output file), the next step of eval_one_max is to return fitness 0:
\* bench_engine is not run and nothing is raised.
C2_BuildFailureGivesZero ==
    [][\A j \in Tasks :
          (tpc[j] = "check" /\ tfail[j] /\ tpc'[j] # "check")
              => (tpc'[j] = "done" /\ res'[j] = OkResult(0))]_vars

\* C3: when eval_one_max ends for a genome, by returning or by raising, the
\* executable its build wrote is no longer on disk.
C3_ExecutableRemoved ==
    [][\A j \in Tasks :
          (tpc[j] \in {"check", "bench", "remove"} /\ tpc'[j] = "done")
              => disk'[tpath[j]] # j]_vars

\* C4: a build or measurement failure in the evaluation of one individual
\* never ends the run: launch_ga is never aborted by an evaluation that
\* raised.
C4_FailureContained ==
    pc = "Aborted" => \A i \in 1..Len(jobs) : res[i].st # "raised"

\* C5: when a phase of profile_build fails, the call reports a failure and
\* the file left at the output path is not the instrumented executable of
\* the first phase.
C5_NoInstrumentedDeliverable ==
    (pbResult # "none" /\ pbFailed # {})
        => (pbResult = "raised" /\ artifact # "instrumented")

\* C6: the fitness recorded in the hall of fame is at least the fitness of
\* every individual evaluated so far.
C6_HofIsBestEver ==
    hof # <<>> => hof[1].fit >= bestEver

\* C7: when the map over P genomes ends, the main process has P fitness
\* values, the i-th being the one computed for the i-th genome.
C7_MapReturnsAllInOrder ==
    [][(pc = "Evaluating" /\ pc' # "Evaluating")
          => \A i \in 1..Len(jobs) :
                 /\ res[i].st = "ok"
                 /\ pop'[jobs[i]].valid
                 /\ pop'[jobs[i]].fit = res[i].val]_vars

\* C8: two evaluations running at the same time never have the same
\* temporary path for their executables.
C8_DistinctPaths ==
    \A j1 \in Running, j2 \in Running : j1 # j2 => tpath[j1] # tpath[j2]

\* C9: mutation can leave any gene at any valid index of its group: before
\* the mutation step, for every individual, gene and index of the gene's
\* group, some outcome of the step has that gene at that index.
C9_MutationReachesEveryIndex ==
    pc = "Mutating" =>
        \A n \in 1..Len(pop), i \in 1..Len(options) :
            \A x \in attr(options[i]) :
                ENABLED (Mutate /\ pop'[n].genome[i] = x)

\* C10: a run that has ended has done all its generations and has called
\* profile_build exactly once, with the decoded hall-of-fame genome.
C10_EndsAfterAllGenerations ==
    pc \in {"Done", "Aborted"} =>
        /\ gen = Generations
        /\ pbCalls = 1
        /\ pbArgs = individual_to_parameters(hof[1].genome)

====
